---- MODULE Spec2Model ----
(***************************************************************************)
(* Tile streaming and locomotion of the 3JS demo, in its three variants:   *)
(*   "part_000"  fixed radius, streaming gated on tile-boundary crossings, *)
(*               character model with guarded accesses                     *)
(*   "part_001"  as part_000, character model accessed without guards      *)
(*   "App"       src/App.jsx: dynamic radius, updateTiles every frame      *)
(*                                                                         *)
(* Positions are fixed-point integers: one unit is moveSpeed/2 world units.*)
(* Jump heights and velocities are integers in units of one gravity step   *)
(* (0.1 in part_000 and part_001, 0.025 in App.jsx).  yaw is a number of   *)
(* quarter turns, the angles at which sin and cos are 0, 1 or -1; pitch is *)
(* in units of a tenth of the mouse sensitivity.  A tile key `${x}_${z}`   *)
(* is the pair <<x, z>> (the formatting is injective on integer pairs).    *)
(***************************************************************************)
EXTENDS Integers, FiniteSets, Sequences, TLC

VARIABLES
    variant,          \* which source file runs
    cameraX, cameraZ, \* viewpoint on the ground plane
    keys,             \* held-key flags
    isSprinting,
    jumpY, jumpVelocity, isJumping,
    yaw, pitch,
    isThirdPerson,
    load,             \* character model: "pending", "loaded", "failed"
    activeAction,     \* "undefined", "motion" or "first"
    actionRunning,    \* activeAction.isRunning()
    timeScale,        \* activeAction.timeScale
    partsVisible,     \* node.visible of Object_10 / Object_11
    modelVisible,     \* characterModel.visible
    hasParts,         \* the asset has Object_4 with meshes Object_10/11
    tiles,            \* Map: tile key -> mesh
    scene,            \* tile meshes attached to the scene, with multiplicity
    live,             \* undisposed resources of the tiles in the map
    orphans,          \* undisposed resources of evicted tiles, counted by kind
    visibleRadius,
    lastCameraTileX, lastCameraTileZ,
    pointerLock,      \* document.pointerLockElement === canvas
    rafPending,       \* a frame callback is scheduled
    thrown,           \* handlers that ended in an uncaught TypeError
    frame,            \* history: what the last tick did
    upd,              \* history: what the last updateTiles call did
    flightTicks,      \* history: ticks of the current or last flight
    view,             \* canvas layout, drawing-buffer size and camera.aspect
    texture,          \* image state of the ground textures in use
    delta,            \* what clock.getDelta() returns in the next tick
    cleaned,          \* the effect's cleanup function has run
    held              \* the keys of the keyboard that are down, by e.code

vars == <<variant, cameraX, cameraZ, keys, isSprinting, jumpY, jumpVelocity,
          isJumping, yaw, pitch, isThirdPerson, load, activeAction,
          actionRunning, timeScale, partsVisible, modelVisible, hasParts,
          tiles, scene, live, orphans, visibleRadius, lastCameraTileX,
          lastCameraTileZ,
          pointerLock, rafPending, thrown, frame, upd, flightTicks, view,
          texture, delta, cleaned, held>>

(***************************************************************************)
(* Bounds of the model.  tileSize and visibleRadius are configuration of   *)
(* the program (100 and 20 in part_000/part_001); the streaming code is    *)
(* parametric in them and is checked on a scaled-down grid.                *)
(***************************************************************************)
tileSize == 3
fixedRadius == 2
moveSpeed == 1
MaxPos == 3
MaxCopies == 2
MaxFlight == 80
mouseFar == 2000
mouseNear == 100

\* App.jsx derives the radius from the camera height: tile width in world
\* units, margin and clamp of that formula (10, 4 and 12 in the source,
\* giving radii 9 to 11, one short of the clamp; scaled here to radii 3 and
\* 4 under a clamp of 5).  MaxHeight is the largest jump height, in jump
\* units, the radius formula is evaluated at.
tileWorld_App == 50
radiusMargin_App == 2
maxRadius_App == 5
MaxHeight == 2000
MaxDelta == 3
maxClient == 4

Gated == {"part_000", "part_001"}

Min(a, b) == IF a < b THEN a ELSE b
Max(a, b) == IF a > b THEN a ELSE b
CeilDiv(a, b) == -((-a) \div b)

floorDiv(a, b) == a \div b

tileOf(x, z) == <<floorDiv(x, tileSize), floorDiv(z, tileSize)>>

(***************************************************************************)
(* Multisets as functions from elements to positive counts, saturating at  *)
(* MaxCopies.                                                              *)
(***************************************************************************)
EmptyBag == [e \in {} |-> 0]

copies(b, e) == IF e \in DOMAIN b THEN b[e] ELSE 0

addAll(b, S) ==
    [e \in DOMAIN b \cup S |->
        Min(copies(b, e) + (IF e \in S THEN 1 ELSE 0), MaxCopies)]

removeAll(b, S) ==
    [e \in {x \in DOMAIN b : x \notin S \/ b[x] > 1} |->
        IF e \in S THEN b[e] - 1 ELSE b[e]]

(***************************************************************************)
(* Tile streaming.                                                         *)
(***************************************************************************)
tileKey(x, z) == <<x, z>>

\* The mesh createTile builds for tile (x, z): its position identifies it.
createTile(x, z) == [x |-> x * tileSize, z |-> z * tileSize]

\* What createTile allocates per tile, and what eviction disposes of.
allocatedKinds(v) ==
    IF v = "App" THEN {"geometry", "texture", "material"} ELSE {"geometry"}

disposedKinds(v) ==
    IF v = "App" THEN {"geometry", "material"} ELSE {"geometry"}

resourcesOf(kinds, ks) == {[kind |-> r, key |-> k] : r \in kinds, k \in ks}

\* part_000 / part_001: the circle of radius R around the camera's tile.
neededTiles(cx, cz, R) ==
    LET cameraTileX == floorDiv(cx, tileSize)
        cameraTileZ == floorDiv(cz, tileSize)
    IN  {tileKey(cameraTileX + p[1], cameraTileZ + p[2]) :
            p \in {q \in (-R..R) \X (-R..R) :
                      ~(q[1] * q[1] + q[2] * q[2] > R * R)}}

\* App.jsx: tiles whose origin is within R tiles of the camera position.
neededTilesApp(cx, cz, R) ==
    LET tx(dx) == floorDiv(cx + dx * tileSize, tileSize)
        tz(dz) == floorDiv(cz + dz * tileSize, tileSize)
        dist2(dx, dz) == (tx(dx) * tileSize - cx) * (tx(dx) * tileSize - cx)
                       + (tz(dz) * tileSize - cz) * (tz(dz) * tileSize - cz)
    IN  {tileKey(tx(p[1]), tz(p[2])) :
            p \in {q \in (-R..R) \X (-R..R) :
                      ~(dist2(q[1], q[2]) > (R * tileSize) * (R * tileSize))}}

\* A loop without the `if (!tiles.has(key))` test.
missingKeys_Always(t, needed) == needed

\* A removal loop that never finds a stale tile.
staleKeys_None(t, needed) == {}

\* `if (!tiles.has(key)) tiles.set(key, createTile(tx, tz))`
missingKeys(t, needed) == needed \ DOMAIN t

\* `if (!needed.has(key)) { scene.remove; dispose; tiles.delete }`
staleKeys(t, needed) == DOMAIN t \ needed

\* The two loops of updateTiles on a map t, scene sc and resources lv.
\* `live` keeps what the resident tiles hold; a resource of an evicted tile
\* that eviction does not dispose of is reported in `orphaned`.
stream(v, t, sc, lv, needed) ==
    LET created == missingKeys(t, needed)
        stale   == staleKeys(t, needed)
    IN  [tiles   |-> [k \in (DOMAIN t \cup created) \ stale |->
                        IF k \in created THEN createTile(k[1], k[2])
                        ELSE t[k]],
         scene   |-> removeAll(addAll(sc, {createTile(k[1], k[2]) :
                                             k \in created}),
                               {IF k \in created THEN createTile(k[1], k[2])
                                ELSE t[k] : k \in stale}),
         live    |-> removeAll(addAll(lv, resourcesOf(allocatedKinds(v),
                                                     created)),
                               resourcesOf(allocatedKinds(v), stale)),
         orphaned |-> IF stale = {} THEN {}
                      ELSE allocatedKinds(v) \ disposedKinds(v),
         created |-> created,
         removed |-> stale]

\* History of an updateTiles call with arguments args = <<cx, cz, R>>:
\* `from` is the tile the previous call was centred on, `repeat` whether
\* the previous call had the same arguments, `same` whether the call left
\* the map, the scene and the resources as they were, `seen` the image
\* states of the textures in use when the call was made.
callRecord(args, r) ==
    [calls |-> Min(upd.calls + 1, 2), args |-> args,
     from |-> (IF upd.calls = 0 THEN <<>>
               ELSE tileOf(upd.args[1], upd.args[2])),
     repeat |-> (args = upd.args),
     same |-> (r.tiles = tiles /\ r.scene = scene /\ r.live = live),
     created |-> r.created, removed |-> r.removed,
     seen |-> {texture[k] : k \in DOMAIN texture}]

\* updateTiles of part_000 / part_001 on the current map.
updateTiles(cx, cz) ==
    \E needed \in {neededTiles(cx, cz, visibleRadius)} :
        \E r \in {stream(variant, tiles, scene, live, needed)} :
            /\ tiles' = r.tiles
            /\ scene' = r.scene
            /\ live' = r.live
            /\ orphans' = addAll(orphans, r.orphaned)
            /\ upd' = callRecord(<<cx, cz, visibleRadius>>, r)

\* updateTiles of App.jsx; it reads the radius render has just assigned.
\* createTile starts the load of a texture of its own for each new tile.
updateTilesApp(cx, cz) ==
    \E needed \in {neededTilesApp(cx, cz, visibleRadius')} :
        \E r \in {stream(variant, tiles, scene, live, needed)} :
            /\ tiles' = r.tiles
            /\ texture' = [k \in DOMAIN r.tiles |->
                              IF k \in r.created THEN "pending" ELSE texture[k]]
            /\ scene' = r.scene
            /\ live' = r.live
            /\ orphans' = addAll(orphans, r.orphaned)
            /\ upd' = callRecord(<<cx, cz, visibleRadius'>>, r)

(***************************************************************************)
(* Locomotion.                                                             *)
(***************************************************************************)
B(b) == IF b THEN 1 ELSE 0

\* Math.sin / Math.cos at q quarter turns.
Sin(q) == <<0, 1, 0, -1>>[(q % 4) + 1]
Cos(q) == <<1, 0, -1, 0>>[(q % 4) + 1]

\* A tick whose `if (keys.s)` branch is missing.
rawMove_NoBack(k, y) ==
    <<B(k["w"]) * Sin(y) + (B(k["a"]) - B(k["d"])) * Sin(y + 1),
      B(k["w"]) * Cos(y) + (B(k["a"]) - B(k["d"])) * Cos(y + 1)>>

\* part_000 / part_001: forward = (sin yaw, cos yaw), right = the same at
\* yaw + pi/2; s and d subtract, w and a add.
rawMove(k, y) ==
    <<(B(k["w"]) - B(k["s"])) * Sin(y) + (B(k["a"]) - B(k["d"])) * Sin(y + 1),
      (B(k["w"]) - B(k["s"])) * Cos(y) + (B(k["a"]) - B(k["d"])) * Cos(y + 1)>>

\* App.jsx: forward = (cos yaw, sin yaw) * cos pitch, right = (cos, sin) at
\* yaw + pi/2; w and d add, s and a subtract.  cos pitch is positive for
\* every clamped pitch and is taken as 1.
rawMoveApp(k, y) ==
    <<(B(k["w"]) - B(k["s"])) * Cos(y) + (B(k["d"]) - B(k["a"])) * Cos(y + 1),
      (B(k["w"]) - B(k["s"])) * Sin(y) + (B(k["d"]) - B(k["a"])) * Sin(y + 1)>>

\* speed / sqrt(2), rounded to the grid.
Diag(speed) == (speed * 7071 + 5000) \div 10000

\* (moveDX / len) * speed, (moveDZ / len) * speed for a non-zero raw vector
\* whose components are 0, 1 or -1; <<0, 0>> when the raw vector is zero.
displacement(m, speed) ==
    IF m[1] = 0 /\ m[2] = 0 THEN <<0, 0>>
    ELSE IF m[1] * m[1] + m[2] * m[2] = 1 THEN <<m[1] * speed, m[2] * speed>>
    ELSE <<m[1] * Diag(speed), m[2] * Diag(speed)>>

sprintNum_000 == 3
sprintNum_001 == 7
sprintDen_001 == 2

currentSpeed(v, sprint) ==
    IF v = "part_000" THEN (IF sprint THEN moveSpeed * sprintNum_000 ELSE moveSpeed)
    ELSE IF v = "part_001"
         THEN (IF sprint THEN (moveSpeed * sprintNum_001) \div sprintDen_001
               ELSE moveSpeed)
    ELSE moveSpeed

jumpStrength_000 == 35
jumpStrength_001 == 25
jumpStrength_App == 20
gravity == 1

jumpStrength(v) ==
    IF v = "part_000" THEN jumpStrength_000
    ELSE IF v = "part_001" THEN jumpStrength_001 ELSE jumpStrength_App

\* A trigger that does not look at isJumping and jumpY.
jumpStep_Reentrant(v, space, y, vel, jumping) ==
    LET trigger == space
        vel0 == IF trigger THEN jumpStrength(v) ELSE vel
        jumping0 == trigger \/ jumping
        y1 == IF jumping0 THEN y + vel0 ELSE y
        vel1 == IF jumping0 THEN vel0 - gravity ELSE vel0
        landed == jumping0 /\ y1 <= 0
    IN  [jumpY |-> IF landed THEN 0 ELSE y1,
         jumpVelocity |-> IF landed THEN 0 ELSE vel1,
         isJumping |-> IF landed THEN FALSE ELSE jumping0,
         trigger |-> trigger,
         airborne |-> jumping0]

\* A landing that leaves the jumping flag set.
jumpStep_Sticky(v, space, y, vel, jumping) ==
    LET trigger == space /\ ~jumping /\ y = 0
        vel0 == IF trigger THEN jumpStrength(v) ELSE vel
        jumping0 == trigger \/ jumping
        y1 == IF jumping0 THEN y + vel0 ELSE y
        vel1 == IF jumping0 THEN vel0 - gravity ELSE vel0
        landed == jumping0 /\ y1 <= 0
    IN  [jumpY |-> IF landed THEN 0 ELSE y1,
         jumpVelocity |-> IF landed THEN 0 ELSE vel1,
         isJumping |-> jumping0,
         trigger |-> trigger,
         airborne |-> jumping0]

\* A landing test `jumpY < 0`.
jumpStep_Strict(v, space, y, vel, jumping) ==
    LET trigger == space /\ ~jumping /\ y = 0
        vel0 == IF trigger THEN jumpStrength(v) ELSE vel
        jumping0 == trigger \/ jumping
        y1 == IF jumping0 THEN y + vel0 ELSE y
        vel1 == IF jumping0 THEN vel0 - gravity ELSE vel0
        landed == jumping0 /\ y1 < 0
    IN  [jumpY |-> IF landed THEN 0 ELSE y1,
         jumpVelocity |-> IF landed THEN 0 ELSE vel1,
         isJumping |-> IF landed THEN FALSE ELSE jumping0,
         trigger |-> trigger,
         airborne |-> jumping0]

\* A landing that does not zero the velocity.
jumpStep_KeepsVelocity(v, space, y, vel, jumping) ==
    LET trigger == space /\ ~jumping /\ y = 0
        vel0 == IF trigger THEN jumpStrength(v) ELSE vel
        jumping0 == trigger \/ jumping
        y1 == IF jumping0 THEN y + vel0 ELSE y
        vel1 == IF jumping0 THEN vel0 - gravity ELSE vel0
        landed == jumping0 /\ y1 <= 0
    IN  [jumpY |-> IF landed THEN 0 ELSE y1,
         jumpVelocity |-> vel1,
         isJumping |-> IF landed THEN FALSE ELSE jumping0,
         trigger |-> trigger,
         airborne |-> jumping0]

\* One tick of the jump code on height y, velocity vel and flag jumping.
jumpStep(v, space, y, vel, jumping) ==
    LET trigger == space /\ ~jumping /\ y = 0
        vel0 == IF trigger THEN jumpStrength(v) ELSE vel
        jumping0 == trigger \/ jumping
        y1 == IF jumping0 THEN y + vel0 ELSE y
        vel1 == IF jumping0 THEN vel0 - gravity ELSE vel0
        landed == jumping0 /\ y1 <= 0
    IN  [jumpY |-> IF landed THEN 0 ELSE y1,
         jumpVelocity |-> IF landed THEN 0 ELSE vel1,
         isJumping |-> IF landed THEN FALSE ELSE jumping0,
         trigger |-> trigger,
         airborne |-> jumping0]

(***************************************************************************)
(* Input handlers.  A key event is [key |-> e.key, code |-> e.code].       *)
(***************************************************************************)
toLowerCase(k) ==
    CASE k = "W" -> "w" [] k = "A" -> "a" [] k = "S" -> "s" [] k = "D" -> "d"
      [] k = "Shift" -> "shift" [] k = "Tab" -> "tab" [] OTHER -> k

\* `if (key in keys) keys[key] = b; if (e.code === "Space") keys.space = b`
setKey(k, e, b) ==
    LET key == toLowerCase(e.key)
        k1 == IF key \in DOMAIN k THEN [k EXCEPT ![key] = b] ELSE k
    IN  IF e.code = "Space" THEN [k1 EXCEPT !["space"] = b] ELSE k1

\* App.jsx compares e.key with the lower-case letter itself.
setKeyApp(k, e, b) ==
    LET k1 == IF e.key \in {"w", "a", "s", "d", "q", "e"}
              THEN [k EXCEPT ![e.key] = b] ELSE k
    IN  IF e.code = "Space" THEN [k1 EXCEPT !["space"] = b] ELSE k1

\* The Tab branch of handleKeyDown on t = <<isThirdPerson, partsVisible,
\* modelVisible>>, with a model bound or not, that has the parts or not.
\* part_000 sets node.visible and characterModel.visible inside the
\* traversal that finds the parts; part_001 sets characterModel.visible,
\* and with no model the assignment throws after the flag has flipped.
tabPress(v, bound, parts, t) ==
    IF v = "part_000"
    THEN (IF bound /\ parts THEN <<~t[1], ~t[1], ~t[1]>>
          ELSE <<~t[1], t[2], t[3]>>)
    ELSE (IF bound THEN <<~t[1], t[2], ~t[1]>>
          ELSE <<~t[1], t[2], t[3]>>)

\* What the Tab branch of part_000 leaves in <<partsVisible, modelVisible>>.
tabVisibility(third) ==
    IF load = "loaded" /\ hasParts THEN <<third, third>>
    ELSE <<partsVisible, modelVisible>>

handleKeyDown(e) ==
    /\ variant = "part_000"
    /\ keys' = setKey(keys, e, TRUE)
    /\ isSprinting' = (IF e.key = "Shift" THEN TRUE ELSE isSprinting)
    /\ IF e.key = "Tab"
       THEN /\ isThirdPerson' = ~isThirdPerson
            /\ partsVisible' = tabVisibility(~isThirdPerson)[1]
            /\ modelVisible' = tabVisibility(~isThirdPerson)[2]
       ELSE UNCHANGED <<isThirdPerson, partsVisible, modelVisible>>
    /\ UNCHANGED <<cleaned, delta, texture, view, variant, cameraX, cameraZ, jumpY, jumpVelocity, isJumping,
                   yaw, pitch, load, activeAction, actionRunning, timeScale,
                   hasParts, tiles, scene, live, orphans, visibleRadius,
                   lastCameraTileX, lastCameraTileZ, pointerLock, rafPending,
                   thrown, frame, upd, flightTicks>>

\* part_001: `characterModel.visible = isThirdPerson` without a guard.
handleKeyDown_001(e) ==
    /\ variant = "part_001"
    /\ keys' = setKey(keys, e, TRUE)
    /\ isSprinting' = (IF e.key = "Shift" THEN TRUE ELSE isSprinting)
    /\ IF e.key = "Tab"
       THEN /\ isThirdPerson' = ~isThirdPerson
            /\ IF load = "loaded"
               THEN modelVisible' = ~isThirdPerson /\ UNCHANGED thrown
               ELSE /\ thrown' = thrown \cup {"handleKeyDown"}
                    /\ UNCHANGED modelVisible
       ELSE UNCHANGED <<isThirdPerson, modelVisible, thrown>>
    /\ UNCHANGED <<cleaned, delta, texture, view, variant, cameraX, cameraZ, jumpY, jumpVelocity, isJumping,
                   yaw, pitch, load, activeAction, actionRunning, timeScale,
                   partsVisible, hasParts, tiles, scene, live, orphans, visibleRadius,
                   lastCameraTileX, lastCameraTileZ, pointerLock, rafPending,
                   frame, upd, flightTicks>>

handleKeyDownApp(e) ==
    /\ variant = "App"
    /\ keys' = setKeyApp(keys, e, TRUE)
    /\ UNCHANGED <<cleaned, delta, texture, view, variant, cameraX, cameraZ, isSprinting, jumpY, jumpVelocity,
                   isJumping, yaw, pitch, isThirdPerson, load, activeAction,
                   actionRunning, timeScale, partsVisible, modelVisible,
                   hasParts, tiles, scene, live, orphans, visibleRadius,
                   lastCameraTileX, lastCameraTileZ, pointerLock, rafPending,
                   thrown, frame, upd, flightTicks>>

handleKeyUp(e) ==
    /\ variant \in Gated
    /\ keys' = setKey(keys, e, FALSE)
    /\ isSprinting' = (IF e.key = "Shift" THEN FALSE ELSE isSprinting)
    /\ UNCHANGED <<cleaned, delta, texture, view, variant, cameraX, cameraZ, jumpY, jumpVelocity, isJumping,
                   yaw, pitch, isThirdPerson, load, activeAction,
                   actionRunning, timeScale, partsVisible, modelVisible,
                   hasParts, tiles, scene, live, orphans, visibleRadius,
                   lastCameraTileX, lastCameraTileZ, pointerLock, rafPending,
                   thrown, frame, upd, flightTicks>>

handleKeyUpApp(e) ==
    /\ variant = "App"
    /\ keys' = setKeyApp(keys, e, FALSE)
    /\ UNCHANGED <<cleaned, delta, texture, view, variant, cameraX, cameraZ, isSprinting, jumpY, jumpVelocity,
                   isJumping, yaw, pitch, isThirdPerson, load, activeAction,
                   actionRunning, timeScale, partsVisible, modelVisible,
                   hasParts, tiles, scene, live, orphans, visibleRadius,
                   lastCameraTileX, lastCameraTileZ, pointerLock, rafPending,
                   thrown, frame, upd, flightTicks>>

sensitivity == 10
pitchLimit_000 == 1961
pitchLimit_App == 7804

pitchLimit(v) == IF v = "App" THEN pitchLimit_App ELSE pitchLimit_000

\* A clamp without the Math.max.
clampPitch_NoFloor(v, p) == Min(pitchLimit(v), p)

\* Math.max(-pitchLimit, Math.min(pitchLimit, p))
clampPitch(v, p) == Max(-pitchLimit(v), Min(pitchLimit(v), p))

\* A mouse event is [movementX |-> quarter turns of travel,
\*                   movementY |-> mouse counts].
onMouseMove(e) ==
    /\ variant \in Gated
    /\ IF ~pointerLock
       THEN UNCHANGED <<yaw, pitch>>
       ELSE /\ yaw' = (yaw - e.movementX) % 4
            /\ pitch' = clampPitch(variant, pitch - e.movementY * sensitivity)
    /\ UNCHANGED <<held, cleaned, delta, texture, view, variant, cameraX, cameraZ, keys, isSprinting, jumpY,
                   jumpVelocity, isJumping, isThirdPerson, load, activeAction,
                   actionRunning, timeScale, partsVisible, modelVisible,
                   hasParts, tiles, scene, live, orphans, visibleRadius,
                   lastCameraTileX, lastCameraTileZ, pointerLock, rafPending,
                   thrown, frame, upd, flightTicks>>

\* App.jsx: no pointer-lock test.
onFPSMouseMove(e) ==
    /\ variant = "App"
    /\ yaw' = (yaw - e.movementX) % 4
    /\ pitch' = clampPitch(variant, pitch - e.movementY * sensitivity)
    /\ UNCHANGED <<held, cleaned, delta, texture, view, variant, cameraX, cameraZ, keys, isSprinting, jumpY,
                   jumpVelocity, isJumping, isThirdPerson, load, activeAction,
                   actionRunning, timeScale, partsVisible, modelVisible,
                   hasParts, tiles, scene, live, orphans, visibleRadius,
                   lastCameraTileX, lastCameraTileZ, pointerLock, rafPending,
                   thrown, frame, upd, flightTicks>>

\* The browser grants or takes away pointer lock.
pointerLockChange ==
    /\ pointerLock' = ~pointerLock
    /\ UNCHANGED <<held, cleaned, delta, texture, view, variant, cameraX, cameraZ, keys, isSprinting, jumpY,
                   jumpVelocity, isJumping, yaw, pitch, isThirdPerson, load,
                   activeAction, actionRunning, timeScale, partsVisible,
                   modelVisible, hasParts, tiles, scene, live, orphans, visibleRadius,
                   lastCameraTileX, lastCameraTileZ, rafPending, thrown,
                   frame, upd, flightTicks>>

(***************************************************************************)
(* Character model load.  gltf is [parts |-> the asset has the meshes      *)
(* Object_10/Object_11 under Object_4, clips |-> "none", "motion" (a clip  *)
(* named 'motion' exists) or "other" (clips, none named 'motion')].        *)
(***************************************************************************)
chosenAction(gltf) ==
    IF gltf.clips = "motion" THEN "motion"
    ELSE IF gltf.clips = "other" THEN "first" ELSE "undefined"

onLoad(gltf) ==
    /\ variant \in Gated
    /\ load = "pending"
    /\ load' = "loaded"
    /\ hasParts' = gltf.parts
    /\ IF variant = "part_000"
       THEN /\ partsVisible' = (IF gltf.parts THEN FALSE ELSE partsVisible)
            /\ UNCHANGED modelVisible
       ELSE /\ modelVisible' = FALSE
            /\ UNCHANGED partsVisible
    /\ activeAction' = chosenAction(gltf)
    /\ UNCHANGED <<held, cleaned, delta, texture, view, variant, cameraX, cameraZ, keys, isSprinting, jumpY,
                   jumpVelocity, isJumping, yaw, pitch, isThirdPerson,
                   actionRunning, timeScale, tiles, scene, live, orphans,
                   visibleRadius, lastCameraTileX, lastCameraTileZ,
                   pointerLock, rafPending, thrown, frame, upd, flightTicks>>

\* The error callback only logs.
onLoadError ==
    /\ variant \in Gated
    /\ load = "pending"
    /\ load' = "failed"
    /\ UNCHANGED <<held, cleaned, delta, texture, view, variant, cameraX, cameraZ, keys, isSprinting, jumpY,
                   jumpVelocity, isJumping, yaw, pitch, isThirdPerson,
                   activeAction, actionRunning, timeScale, partsVisible,
                   modelVisible, hasParts, tiles, scene, live, orphans, visibleRadius,
                   lastCameraTileX, lastCameraTileZ, pointerLock, rafPending,
                   thrown, frame, upd, flightTicks>>

(***************************************************************************)
(* Ground textures.  texture maps a texture in use to the state of its     *)
(* image: "pending", "loaded" or "failed".  part_000 and part_001 load one *)
(* texture for the shared material; App.jsx loads one in every createTile, *)
(* named here by the key of its tile.  The callbacks of the texture of an  *)
(* evicted tile do what the ones below do and are not followed.            *)
(***************************************************************************)
sharedTexture == <<>>

\* An error callback that drops the tile whose texture failed.
onTextureError_Evict(k) ==
    /\ k \in DOMAIN texture
    /\ texture[k] = "pending"
    /\ texture' = [texture EXCEPT ![k] = "failed"]
    /\ tiles' = [j \in DOMAIN tiles \ {k} |-> tiles[j]]
    /\ UNCHANGED <<held, cleaned, delta, view, variant, cameraX, cameraZ, keys, isSprinting, jumpY,
                   jumpVelocity, isJumping, yaw, pitch, isThirdPerson, load,
                   activeAction, actionRunning, timeScale, partsVisible,
                   modelVisible, hasParts, scene, live, orphans,
                   visibleRadius, lastCameraTileX, lastCameraTileZ, pointerLock,
                   rafPending, thrown, frame, upd, flightTicks>>

\* The image arrives.  App.jsx passes a callback that draws the scene once
\* more; part_000 and part_001 pass none.
onTextureLoad(k) ==
    /\ k \in DOMAIN texture
    /\ texture[k] = "pending"
    /\ texture' = [texture EXCEPT ![k] = "loaded"]
    /\ UNCHANGED <<held, cleaned, delta, view, variant, cameraX, cameraZ, keys, isSprinting, jumpY,
                   jumpVelocity, isJumping, yaw, pitch, isThirdPerson, load,
                   activeAction, actionRunning, timeScale, partsVisible,
                   modelVisible, hasParts, tiles, scene, live, orphans,
                   visibleRadius, lastCameraTileX, lastCameraTileZ, pointerLock,
                   rafPending, thrown, frame, upd, flightTicks>>

\* The image fails to load.  The callback of App.jsx logs the error;
\* part_000 and part_001 pass none.
onTextureError(k) ==
    /\ k \in DOMAIN texture
    /\ texture[k] = "pending"
    /\ texture' = [texture EXCEPT ![k] = "failed"]
    /\ UNCHANGED <<held, cleaned, delta, view, variant, cameraX, cameraZ, keys, isSprinting, jumpY,
                   jumpVelocity, isJumping, yaw, pitch, isThirdPerson, load,
                   activeAction, actionRunning, timeScale, partsVisible,
                   modelVisible, hasParts, tiles, scene, live, orphans,
                   visibleRadius, lastCameraTileX, lastCameraTileZ, pointerLock,
                   rafPending, thrown, frame, upd, flightTicks>>

(***************************************************************************)
(* Resize.  view is [clientWidth, clientHeight |-> canvas.clientWidth and  *)
(* canvas.clientHeight, pixelRatio |-> window.devicePixelRatio in halves,  *)
(* width, height |-> canvas.width and canvas.height, aspect |-> the pair   *)
(* <<w, h>> camera.aspect was computed from as w / h].                     *)
(***************************************************************************)
\* `(canvas.clientWidth * pixelRatio) | 0`
bufferSize(client, ratio) == (client * ratio) \div 2

\* The body of handleResize.
resized(v) ==
    LET width == bufferSize(v.clientWidth, v.pixelRatio)
        height == bufferSize(v.clientHeight, v.pixelRatio)
    IN  IF v.width # width \/ v.height # height
        THEN [v EXCEPT !.width = width, !.height = height,
                       !.aspect = <<v.clientWidth, v.clientHeight>>]
        ELSE v

\* The canvas before handleResize has run: the default 300 x 150 buffer and
\* the aspect the camera was constructed with.
defaultView(w, h, r) ==
    [clientWidth |-> w, clientHeight |-> h, pixelRatio |-> r,
     width |-> 300, height |-> 150, aspect |-> <<w, h>>]

\* A resize event with the layout as it is.
handleResize ==
    /\ variant \in Gated
    /\ view' = resized(view)
    /\ UNCHANGED <<held, cleaned, delta, texture, variant, cameraX, cameraZ, keys, isSprinting, jumpY,
                   jumpVelocity, isJumping, yaw, pitch, isThirdPerson, load,
                   activeAction, actionRunning, timeScale, partsVisible,
                   modelVisible, hasParts, tiles, scene, live, orphans,
                   visibleRadius, lastCameraTileX, lastCameraTileZ, pointerLock,
                   rafPending, thrown, frame, upd, flightTicks>>

\* The window is resized or zoomed to layout <<w, h, r>>, and the resize
\* event runs handleResize.
onResize(w, h, r) ==
    /\ variant \in Gated
    /\ view' = resized([view EXCEPT !.clientWidth = w, !.clientHeight = h,
                                    !.pixelRatio = r])
    /\ UNCHANGED <<held, cleaned, delta, texture, variant, cameraX, cameraZ, keys, isSprinting, jumpY,
                   jumpVelocity, isJumping, yaw, pitch, isThirdPerson, load,
                   activeAction, actionRunning, timeScale, partsVisible,
                   modelVisible, hasParts, tiles, scene, live, orphans,
                   visibleRadius, lastCameraTileX, lastCameraTileZ, pointerLock,
                   rafPending, thrown, frame, upd, flightTicks>>

(***************************************************************************)
(* The frame callback.  Time is counted in display refresh intervals: the  *)
(* browser calls the callback one interval after the request, or later.    *)
(***************************************************************************)
\* The browser skips a refresh before it runs the pending callback.
stall ==
    /\ variant \in Gated
    /\ rafPending
    /\ delta < MaxDelta
    /\ delta' = delta + 1
    /\ UNCHANGED <<held, cleaned, texture, view, variant, cameraX, cameraZ, keys, isSprinting,
                   jumpY, jumpVelocity, isJumping, yaw, pitch, isThirdPerson,
                   load, activeAction, actionRunning, timeScale, partsVisible,
                   modelVisible, hasParts, tiles, scene, live, orphans,
                   visibleRadius, lastCameraTileX, lastCameraTileZ, pointerLock,
                   rafPending, thrown, frame, upd, flightTicks>>

NegInfinity == -1000000

cameraY_App == 600
groundNum_App == 76733
groundDen_App == 1000000
initialRadius_App == 6

\* A radius without the Math.min.
dynamicRadius_NoClamp(jy) ==
    CeilDiv((cameraY_App + jy) * groundNum_App, groundDen_App * tileWorld_App)
        + radiusMargin_App

\* Math.min(Math.ceil(groundDistance * camera.aspect / tileSize) + margin, max)
\* with groundDistance = camY * tan(fov / 2) * 2, fov = 75 and aspect = 2:
\* groundDistance * aspect is 3.0693 per world unit of camera height, that
\* is 0.076733 per jump unit (0.025); cameraY = 15 is 600 jump units.
dynamicRadius(jy) ==
    Min(CeilDiv((cameraY_App + jy) * groundNum_App,
                groundDen_App * tileWorld_App)
            + radiusMargin_App,
        maxRadius_App)

\* The tile of the position the previous updateTiles call was given.
streamedTile == IF upd.calls = 0 THEN <<>> ELSE tileOf(upd.args[1], upd.args[2])

\* `if (mixer)` and `if (activeAction)`.
clipBound == load = "loaded" /\ activeAction # "undefined"

\* A tick that calls play() whenever the viewpoint moves.
clipCommand_Eager(moving, running) ==
    IF moving THEN "play" ELSE IF running THEN "stop" ELSE "none"

\* What the tick calls on the active clip: play() when moving and the clip
\* is not running, stop() when idle and it is running.
clipCommand(moving, running) ==
    IF moving
    THEN (IF ~running THEN "play" ELSE "none")
    ELSE (IF running THEN "stop" ELSE "none")

\* Vector3.applyAxisAngle about the y axis, by q quarter turns.
rotateY(vec, q) ==
    <<vec[1] * Cos(q) + vec[3] * Sin(q), vec[2],
      vec[3] * Cos(q) - vec[1] * Sin(q)>>

plus(a, b) == <<a[1] + b[1], a[2] + b[2], a[3] + b[3]>>

\* Where a tick puts the character model and the camera: what it passes to
\* characterModel.position.set, camera.position.set (or copy) and
\* camera.lookAt.  No handler reads these back.  `at` is the viewpoint
\* <<cameraX, cameraZ>>; the other vectors are offsets from the point of
\* the ground under it, in tenths of a world unit (the unit of jumpY) in
\* part_000 and part_001 and in units of jumpY in App.jsx.
\* `character` is characterModel.position, <<>> with no model bound;
\* `position` is camera.position; camera.lookAt is given `target` plus,
\* unless `dir` is <<>>, the unit vector of yaw dir[1] and pitch dir[2].
cameraPose(v, third, bound, at, jy, y, p) ==
    LET camY == 2100 + jy
        character == IF bound THEN <<0, camY - 210, -30>> ELSE <<>>
    IN  IF v = "App"
        THEN [at |-> at, character |-> <<>>,
              position |-> <<0, cameraY_App + jy, 0>>,
              target |-> <<0, cameraY_App + jy, 0>>, dir |-> <<y, p>>]
        ELSE IF v = "part_000"
        THEN [at |-> at, character |-> character,
              position |-> (IF third THEN <<0, camY, 300>>
                            ELSE <<0, camY + 20, -14>>),
              target |-> <<0, camY, 0>>, dir |-> <<y, p>>]
        ELSE IF third
        THEN [at |-> at, character |-> character,
              position |-> plus(character, rotateY(<<0, 150, -300>>, y)),
              target |-> plus(character, <<0, 100, 0>>), dir |-> <<>>]
        ELSE [at |-> at, character |-> character,
              position |-> <<0, camY, 0>>,
              target |-> <<0, camY, 0>>, dir |-> <<y, p>>]

\* `mixer.update(delta)`: the time the running clip advances by, in
\* refresh intervals; the clip and rate are the ones the tick began with.
mixerUpdate(dt) ==
    IF clipBound /\ actionRunning THEN dt * timeScale ELSE 0

\* History of a tick that leaves the viewpoint in `tile`; `rested` tells
\* that it began on the ground with the jump key up, `advance` how far the
\* tick advanced the animation.
frameRecord(tile, streamed, done, moved) ==
    [n |-> Min(frame.n + 1, 2),
     crossed |-> (tile # tileOf(cameraX, cameraZ)),
     differs |-> (tile # streamedTile),
     streamed |-> streamed, done |-> done, moved |-> moved,
     rested |-> (~isJumping /\ jumpY = 0 /\ ~keys["space"]),
     advance |-> (IF done THEN mixerUpdate(delta) ELSE 0),
     issued |-> (IF done /\ clipBound THEN clipCommand(moved, actionRunning)
                 ELSE "none")]

\* `cameraX += ...; cameraZ += ...` and the jump code.
locomote(d, j) ==
    /\ cameraX' = cameraX + d[1]
    /\ cameraZ' = cameraZ + d[2]
    /\ jumpY' = j.jumpY
    /\ jumpVelocity' = j.jumpVelocity
    /\ isJumping' = j.isJumping
    /\ flightTicks' = (IF j.trigger THEN 1
                       ELSE IF j.airborne THEN Min(flightTicks + 1, MaxFlight)
                       ELSE flightTicks)

\* `if (mixer) { ...; if (activeAction) { play / stop } }`; part_000 also
\* sets the time scale before play.
animate(moving) ==
    IF clipBound
    THEN /\ timeScale' = (IF moving /\ variant = "part_000"
                          THEN (IF isSprinting THEN 3 ELSE 1)
                          ELSE timeScale)
         /\ actionRunning' =
               (CASE clipCommand(moving, actionRunning) = "play" -> TRUE
                  [] clipCommand(moving, actionRunning) = "stop" -> FALSE
                  [] OTHER -> actionRunning)
    ELSE UNCHANGED <<timeScale, actionRunning>>

\* `if (cameraTileX !== lastCameraTileX || ...) { updateTiles(...); ... }`
mustStream(tile) == tile[1] # lastCameraTileX \/ tile[2] # lastCameraTileZ

gate(tile) ==
    IF mustStream(tile)
    THEN /\ updateTiles(cameraX', cameraZ')
         /\ lastCameraTileX' = tile[1]
         /\ lastCameraTileZ' = tile[2]
    ELSE UNCHANGED <<tiles, scene, live, orphans, upd, lastCameraTileX,
                   lastCameraTileZ>>

render ==
    /\ variant = "part_000"
    /\ rafPending
    /\ LET raw == rawMove(keys, yaw)
           d == displacement(raw, currentSpeed(variant, isSprinting))
           j == jumpStep(variant, keys["space"], jumpY, jumpVelocity, isJumping)
           tile == tileOf(cameraX + d[1], cameraZ + d[2])
       IN  /\ locomote(d, j)
           /\ animate(raw # <<0, 0>>)
           /\ gate(tile)
           /\ frame' = frameRecord(tile, mustStream(tile), TRUE, raw # <<0, 0>>)
    /\ rafPending' = TRUE
    /\ delta' = 1
    /\ UNCHANGED <<held, cleaned, texture, view, variant, keys, isSprinting, yaw, pitch, isThirdPerson,
                   load, activeAction, partsVisible, modelVisible, hasParts,
                   visibleRadius, pointerLock, thrown>>

\* part_001: the third-person branch reads characterModel.position without
\* a guard; with no model bound the TypeError ends the callback before the
\* animation, the streaming and requestAnimationFrame.
render_001 ==
    /\ variant = "part_001"
    /\ rafPending
    /\ LET raw == rawMove(keys, yaw)
           d == displacement(raw, currentSpeed(variant, isSprinting))
           j == jumpStep(variant, keys["space"], jumpY, jumpVelocity, isJumping)
           tile == tileOf(cameraX + d[1], cameraZ + d[2])
       IN  /\ locomote(d, j)
           /\ IF isThirdPerson /\ load # "loaded"
              THEN /\ thrown' = thrown \cup {"render"}
                   /\ rafPending' = FALSE
                   /\ frame' = frameRecord(tile, FALSE, FALSE, raw # <<0, 0>>)
                   /\ UNCHANGED <<timeScale, actionRunning, tiles, scene, live,
                                  orphans, upd, lastCameraTileX,
                                  lastCameraTileZ>>
              ELSE /\ animate(raw # <<0, 0>>)
                   /\ gate(tile)
                   /\ frame' = frameRecord(tile, mustStream(tile), TRUE,
                                           raw # <<0, 0>>)
                   /\ rafPending' = TRUE
                   /\ UNCHANGED thrown
    /\ delta' = 1
    /\ UNCHANGED <<held, cleaned, texture, view, variant, keys, isSprinting, yaw, pitch, isThirdPerson,
                   load, activeAction, partsVisible, modelVisible, hasParts,
                   visibleRadius, pointerLock>>

renderApp ==
    /\ variant = "App"
    /\ rafPending
    /\ LET raw == rawMoveApp(keys, yaw)
           d == displacement(raw, moveSpeed)
           j == jumpStep(variant, keys["space"], jumpY, jumpVelocity, isJumping)
           tile == tileOf(cameraX + d[1], cameraZ + d[2])
       IN  /\ locomote(d, j)
           /\ visibleRadius' = dynamicRadius(j.jumpY)
           /\ updateTilesApp(cameraX', cameraZ')
           /\ frame' = frameRecord(tile, TRUE, TRUE, raw # <<0, 0>>)
    /\ rafPending' = TRUE
    /\ UNCHANGED <<held, cleaned, delta, view, variant, keys, isSprinting, yaw, pitch, isThirdPerson,
                   load, activeAction, actionRunning, timeScale, partsVisible,
                   modelVisible, hasParts, lastCameraTileX, lastCameraTileZ,
                   pointerLock, thrown>>

\* The function the effect returns: it removes the listeners (three in
\* App.jsx, five in part_000 and part_001) and, in part_000 and part_001,
\* disposes of the shared material and texture.  It does not cancel the
\* frame request and does not touch the tiles.
cleanup ==
    /\ ~cleaned
    /\ cleaned' = TRUE
    /\ UNCHANGED <<held, delta, texture, view, variant, cameraX, cameraZ, keys,
                   isSprinting, jumpY, jumpVelocity, isJumping, yaw, pitch,
                   isThirdPerson, load, activeAction, actionRunning, timeScale,
                   partsVisible, modelVisible, hasParts, tiles, scene, live,
                   orphans, visibleRadius, lastCameraTileX, lastCameraTileZ,
                   pointerLock, rafPending, thrown, frame, upd, flightTicks>>

(***************************************************************************)
(* The state when the effect has run: part_000 and part_001 have streamed  *)
(* the tiles around (0, 0) once; App.jsx has not.                          *)
(***************************************************************************)
KeyNames(v) ==
    IF v = "App" THEN {"w", "a", "s", "d", "q", "e", "space"}
    ELSE {"w", "a", "s", "d", "space", "shift"}

NoFrame == [n |-> 0, crossed |-> FALSE, differs |-> FALSE,
            streamed |-> FALSE, done |-> TRUE, moved |-> FALSE,
            rested |-> FALSE, advance |-> 0, issued |-> "none"]

InitVariant(v) ==
    /\ variant = v
    /\ cameraX = 0 /\ cameraZ = 0
    /\ keys = [k \in KeyNames(v) |-> FALSE]
    /\ isSprinting = FALSE
    /\ jumpY = 0 /\ jumpVelocity = 0 /\ isJumping = FALSE
    /\ yaw = 0 /\ pitch = 0
    /\ isThirdPerson = FALSE
    /\ load = "pending"
    /\ activeAction = "undefined"
    /\ actionRunning = FALSE
    /\ timeScale = 1
    /\ partsVisible = TRUE /\ modelVisible = TRUE /\ hasParts = FALSE
    /\ pointerLock = FALSE
    /\ rafPending = TRUE
    /\ thrown = {}
    /\ frame = NoFrame
    /\ flightTicks = 0
    /\ delta = 1
    /\ cleaned = FALSE
    /\ held = {}
    /\ view = (IF v = "App" THEN defaultView(maxClient, 2, 2)
               ELSE resized(defaultView(maxClient, 2, 2)))
    /\ lastCameraTileX = NegInfinity /\ lastCameraTileZ = NegInfinity
    /\ IF v = "App"
       THEN /\ visibleRadius = initialRadius_App
            /\ tiles = EmptyBag /\ scene = EmptyBag /\ live = EmptyBag
            /\ orphans = EmptyBag
            /\ texture = EmptyBag
            /\ upd = [calls |-> 0, args |-> <<>>, from |-> <<>>,
                      repeat |-> FALSE, same |-> TRUE,
                      created |-> {}, removed |-> {}, seen |-> {}]
       ELSE LET r == stream(v, EmptyBag, EmptyBag, EmptyBag,
                            neededTiles(0, 0, fixedRadius))
            IN  /\ visibleRadius = fixedRadius
                /\ tiles = r.tiles /\ scene = r.scene /\ live = r.live
                /\ orphans = EmptyBag
                /\ texture = [k \in {sharedTexture} |-> "pending"]
                /\ upd = [calls |-> 1, args |-> <<0, 0, fixedRadius>>,
                          from |-> <<>>, repeat |-> FALSE, same |-> FALSE,
                          created |-> r.created, removed |-> r.removed,
                          seen |-> {"pending"}]

(***************************************************************************)
(* The environment: which events the browser delivers, and the window the  *)
(* viewpoint is walked in.                                                 *)
(***************************************************************************)
codeOf(c) ==
    CASE c \in {"w", "W"} -> "KeyW" [] c \in {"a", "A"} -> "KeyA"
      [] c \in {"s", "S"} -> "KeyS" [] c \in {"d", "D"} -> "KeyD"
      [] c = " " -> "Space" [] c = "Shift" -> "ShiftLeft" [] OTHER -> c

KeyEvent(c) == [key |-> c, code |-> codeOf(c)]

InWindow ==
    /\ cameraX \in -MaxPos..MaxPos
    /\ cameraZ \in -MaxPos..MaxPos

WalkKeys == {"w", "a", "s", "d", "W", "A", "S", "D"}
ModelKeys == {"w", "s", "Shift", "Tab"}
JumpKeys == {" ", "Shift", "Tab"}
JumpKeysApp == {" ", "q", "W"}

Assets == [parts : BOOLEAN, clips : {"none", "motion", "other"}]

\* Key events by the value they carry, the keyboard left out of account.
Press(S) == \E c \in S : handleKeyDown(KeyEvent(c)) /\ UNCHANGED held
Press_001(S) == \E c \in S : handleKeyDown_001(KeyEvent(c)) /\ UNCHANGED held
PressApp(S) == \E c \in S : handleKeyDownApp(KeyEvent(c)) /\ UNCHANGED held
Release(S) == \E c \in S : handleKeyUp(KeyEvent(c)) /\ UNCHANGED held
ReleaseApp(S) == \E c \in S : handleKeyUpApp(KeyEvent(c)) /\ UNCHANGED held

\* The keyboard: e.key of an event for the key with code `code`, with
\* Shift down or not.
keyOf(code, shift) ==
    CASE code = "KeyW" -> (IF shift THEN "W" ELSE "w")
      [] code = "KeyA" -> (IF shift THEN "A" ELSE "a")
      [] code = "KeyS" -> (IF shift THEN "S" ELSE "s")
      [] code = "KeyD" -> (IF shift THEN "D" ELSE "d")
      [] code = "ShiftLeft" -> "Shift"
      [] code = "Space" -> " "
      [] OTHER -> code

\* The event of the key `code` going down or up while `down` are down.
Typed(code, down) ==
    [key |-> keyOf(code, "ShiftLeft" \in down), code |-> code]

\* A key that is up goes down; a key that is down goes up.  The browser
\* sends the event to the handler of the variant.
KeyDown(code) ==
    /\ code \notin held
    /\ held' = held \cup {code}
    /\ \/ handleKeyDown(Typed(code, held'))
       \/ handleKeyDown_001(Typed(code, held'))
       \/ handleKeyDownApp(Typed(code, held'))

KeyUp(code) ==
    /\ code \in held
    /\ held' = held \ {code}
    /\ \/ handleKeyUp(Typed(code, held'))
       \/ handleKeyUpApp(Typed(code, held'))
Loaded == \E gltf \in Assets : onLoad(gltf)

\* requestAnimationFrame(render), within the window.
Frame == render /\ InWindow'
Frame_001 == render_001 /\ InWindow'
FrameApp == renderApp /\ InWindow'

\* Walking over the tiles: part_000 and App.jsx, the four movement keys.
Init == \E v \in {"part_000", "App"} : InitVariant(v)

Next ==
    \/ Press(WalkKeys)
    \/ PressApp(WalkKeys)
    \/ Release(WalkKeys)
    \/ ReleaseApp(WalkKeys)
    \/ Frame
    \/ FrameApp

Spec == Init /\ [][Next]_vars

\* The character model: part_000 and part_001, the load callbacks, the
\* camera toggle, sprint, forward and back.
InitModel == \E v \in Gated : InitVariant(v)

NextModel ==
    \/ Press(ModelKeys)
    \/ Press_001(ModelKeys)
    \/ Release(ModelKeys)
    \/ Loaded
    \/ onLoadError
    \/ Frame
    \/ Frame_001

SpecModel == InitModel /\ [][NextModel]_vars

\* Jumping in place: part_000 and App.jsx.  The browser keeps calling the
\* frame callback as long as one is requested.
NextJump ==
    \/ Press(JumpKeys)
    \/ PressApp(JumpKeysApp)
    \/ Release(JumpKeys)
    \/ ReleaseApp(JumpKeysApp)
    \/ Frame
    \/ FrameApp

SpecJump == Init /\ [][NextJump]_vars /\ WF_vars(Frame) /\ WF_vars(FrameApp)

\* Jumping in place in the gated variants, with the camera toggle and the
\* sprint key going down and up during the flight.
NextFlight ==
    \/ Press(JumpKeys)
    \/ Press_001(JumpKeys)
    \/ Release(JumpKeys)
    \/ Frame
    \/ Frame_001

SpecFlight == InitModel /\ [][NextFlight]_vars

\* Poses: key, mouse and pointer-lock events arrive before the first tick
\* and leave some keys down and some look direction; the ticks then walk
\* with them until the window ends.
PoseKeys == {"w", "a", "s", "d", "Shift"}
PoseKeysApp == {"w", "a", "s", "d"}
Swings == [movementX : {0, 1}, movementY : {-mouseFar, mouseFar}]

PosePress == frame.n = 0 /\ Press(PoseKeys)
PosePressApp == frame.n = 0 /\ PressApp(PoseKeysApp)
PoseLook == frame.n = 0 /\ \E e \in Swings : onMouseMove(e)
PoseLookApp == frame.n = 0 /\ \E e \in Swings : onFPSMouseMove(e)
PoseLock == frame.n = 0 /\ variant = "part_000" /\ ~pointerLock /\ pointerLockChange

NextPose ==
    \/ PosePress
    \/ PosePressApp
    \/ PoseLook
    \/ PoseLookApp
    \/ PoseLock
    \/ Frame
    \/ FrameApp

SpecPose == Init /\ [][NextPose]_vars

\* Looking around: mouse travel of either sign, short and far beyond the
\* pitch range, with pointer lock granted and lost, in all three variants.
Glances ==
    [movementX : {-1, 0, 1},
     movementY : {-mouseFar, -mouseNear, 0, mouseNear, mouseFar}]

InitLook == \E v \in {"part_000", "part_001", "App"} : InitVariant(v)

Look == \E e \in Glances : onMouseMove(e)
LookApp == \E e \in Glances : onFPSMouseMove(e)

NextLook ==
    \/ Look
    \/ LookApp
    \/ pointerLockChange
    \/ Frame
    \/ Frame_001
    \/ FrameApp

SpecLook == InitLook /\ [][NextLook]_vars

\* Resizing and zooming the window of the gated variants: client sizes of
\* 2 to maxClient pixels, device pixel ratios 1, 1.5 and 2.
Layouts == (2..maxClient) \X (2..maxClient) \X {2, 3, 4}

Resize == \E l \in Layouts : onResize(l[1], l[2], l[3])

NextResize ==
    \/ Resize
    \/ handleResize
    \/ Frame
    \/ Frame_001

SpecResize == InitModel /\ [][NextResize]_vars

\* Uneven frame times: part_000 and part_001 with a character model,
\* walking forward and sprinting while the browser skips refreshes.
ClockKeys == {"w", "Shift"}

NextClock ==
    \/ Press(ClockKeys)
    \/ Press_001(ClockKeys)
    \/ Release(ClockKeys)
    \/ Loaded
    \/ stall
    \/ Frame
    \/ Frame_001

SpecClock == InitModel /\ [][NextClock]_vars

\* The camera rig: part_000 and part_001, a character model loading, the
\* camera toggle, the jump, and the mouse turning and tilting the view.
CameraKeys == {" ", "Tab"}
Tilts == [movementX : {0, 1}, movementY : {0, mouseNear}]

CameraLoaded == onLoad([parts |-> TRUE, clips |-> "motion"])
CameraLook == \E e \in Tilts : onMouseMove(e)
CameraLock == ~pointerLock /\ pointerLockChange

NextCamera ==
    \/ Press(CameraKeys)
    \/ Press_001(CameraKeys)
    \/ Release(CameraKeys)
    \/ CameraLoaded
    \/ CameraLook
    \/ CameraLock
    \/ Frame
    \/ Frame_001

SpecCamera == InitModel /\ [][NextCamera]_vars

\* Unmounting: part_000 and App.jsx walking forward and back, with the
\* cleanup function running at any moment; key events reach the handlers
\* only while the listeners are registered.
CleanupKeys == {"w", "s"}

NextCleanup ==
    \/ ~cleaned /\ Press(CleanupKeys)
    \/ ~cleaned /\ PressApp(CleanupKeys)
    \/ ~cleaned /\ Release(CleanupKeys)
    \/ ~cleaned /\ ReleaseApp(CleanupKeys)
    \/ cleanup
    \/ Frame
    \/ FrameApp

SpecCleanup == Init /\ [][NextCleanup]_vars

\* Typing: the three variants, the keys W, A and left Shift going down
\* and up in any order.
KeyCodes == {"KeyW", "KeyA", "ShiftLeft"}

Typing == \E code \in KeyCodes : KeyDown(code)
Lifting == \E code \in KeyCodes : KeyUp(code)

NextKeys ==
    \/ Typing
    \/ Lifting
    \/ Frame
    \/ Frame_001
    \/ FrameApp

SpecKeys == InitLook /\ [][NextKeys]_vars

\* Textures resolving while the viewpoint walks: part_000 and App.jsx,
\* forward and left, the shared texture and the textures of two tiles
\* loading or failing at any moment.
TextureKeys == {sharedTexture, <<0, 0>>, <<0, 1>>}
TextureWalkKeys == {"w", "a"}

TextureLoaded == \E k \in TextureKeys : onTextureLoad(k)
TextureFailed == \E k \in TextureKeys : onTextureError(k)

NextTexture ==
    \/ Press(TextureWalkKeys)
    \/ PressApp(TextureWalkKeys)
    \/ Release(TextureWalkKeys)
    \/ ReleaseApp(TextureWalkKeys)
    \/ TextureLoaded
    \/ TextureFailed
    \/ Frame
    \/ FrameApp

SpecTexture == Init /\ [][NextTexture]_vars

(***************************************************************************)
(* Properties of the tile streaming.                                       *)
(***************************************************************************)

\* The integer tiles (c.x + i, c.z + j) with i, j in -R..R and
\* i*i + j*j <= R*R.
Circle(c, R) ==
    {k \in (c[1] - R..c[1] + R) \X (c[2] - R..c[2] + R) :
        (k[1] - c[1]) * (k[1] - c[1]) + (k[2] - c[2]) * (k[2] - c[2]) <= R * R}

\* What the last tick created and destroyed.
tickCreated == IF frame.streamed THEN upd.created ELSE {}
tickRemoved == IF frame.streamed THEN upd.removed ELSE {}

\* C1: once updateTiles(P) has returned with radius R, the keys of the map
\* are exactly the tiles of the circle of radius R around the tile
\* floor(P / tileSize).  App.jsx measures the distance of a tile's origin
\* from P itself, so the statement fails there.
C1_KeysAreCircle ==
    upd.calls >= 1 =>
        DOMAIN tiles = Circle(tileOf(upd.args[1], upd.args[2]), upd.args[3])

\* C2: in the gated variants, after every tick the keys of the map are the
\* circle around the viewpoint's current tile and lastCameraTile is that
\* tile.  A tick of part_001 that throws has moved the viewpoint and not
\* streamed.
C2_StreamedEveryTick ==
    (variant \in Gated /\ frame.n >= 1) =>
        /\ DOMAIN tiles = Circle(tileOf(cameraX, cameraZ), visibleRadius)
        /\ <<lastCameraTileX, lastCameraTileZ>> = tileOf(cameraX, cameraZ)

\* C3: a call of updateTiles with the arguments of the call before it
\* creates no tile, destroys no tile and leaves the map, the scene and the
\* resources as they were.
C3_Idempotent ==
    upd.repeat => (upd.created = {} /\ upd.removed = {} /\ upd.same)

C3_Witness ==
    /\ upd.repeat
    /\ upd.calls = 2
    /\ Cardinality(DOMAIN tiles) > 2 * fixedRadius + 1

\* C4: a tick, after the first, that leaves the viewpoint in the tile
\* it was in creates and destroys no tile.  App.jsx calls updateTiles in
\* every tick, with the untruncated position and a radius that follows the
\* jump.
C4_QuietInsideCell ==
    (frame.n >= 2 /\ frame.done /\ ~frame.crossed) =>
        (tickCreated = {} /\ tickRemoved = {})

\* C5: after the first tick, the loop calls updateTiles in a tick exactly
\* when the viewpoint's tile differs from the last streamed tile.
C5_StreamsIffTileDiffers ==
    (frame.n >= 2 /\ frame.done) => (frame.streamed <=> frame.differs)

\* C6: in part_000, a call of updateTiles centred on a tile that is
\* axis-adjacent to the tile of the call before creates the tiles of the
\* new circle that are not in the old one, destroys the tiles of the old
\* circle that are not in the new one, 2R + 1 of each, and touches no tile
\* that is in both.
AxisAdjacent(a, b) ==
    \/ a[1] = b[1] /\ (a[2] - b[2]) \in {-1, 1}
    \/ a[2] = b[2] /\ (a[1] - b[1]) \in {-1, 1}

C6_CrossingIsIncremental ==
    (variant = "part_000" /\ upd.calls = 2) =>
        LET new == tileOf(upd.args[1], upd.args[2])
            old == upd.from
            R == upd.args[3]
        IN  AxisAdjacent(old, new) =>
               /\ upd.created = Circle(new, R) \ Circle(old, R)
               /\ upd.removed = Circle(old, R) \ Circle(new, R)
               /\ Cardinality(upd.created) = 2 * R + 1
               /\ Cardinality(upd.removed) = 2 * R + 1
               /\ Cardinality(upd.created) < Cardinality(DOMAIN tiles)
               /\ \A k \in Circle(old, R) \cap Circle(new, R) :
                      k \in DOMAIN tiles /\ k \notin upd.created

C6_Witness ==
    /\ variant = "part_000"
    /\ upd.calls = 2
    /\ upd.from = <<0, 0>>
    /\ tileOf(upd.args[1], upd.args[2]) = <<-1, 0>>
    /\ Cardinality(upd.removed) = 2 * fixedRadius + 1
    /\ frame.crossed

\* C7: the meshes of the scene are the values of the map, one of each;
\* every resource allocated for a resident tile is live once, and nothing
\* that was allocated for an evicted tile is left undisposed.  App.jsx
\* never disposes the texture it makes for each tile.
C7_SceneAndResources ==
    /\ scene = addAll(EmptyBag, {tiles[k] : k \in DOMAIN tiles})
    /\ live = addAll(EmptyBag, resourcesOf(allocatedKinds(variant), DOMAIN tiles))
    /\ orphans = EmptyBag

\* C8: every tick completes and requests the next one, and no handler
\* throws.  part_001 reads characterModel.visible in the Tab handler and
\* characterModel.position in the third-person branch of the tick with no
\* test that a model is bound.
C8_LoopNeverDies ==
    rafPending /\ thrown = {}

(***************************************************************************)
(* Properties of the jump.  flightTicks counts the ticks of a flight, the  *)
(* tick that triggers the jump being the first.                            *)
(***************************************************************************)
grounded == ~isJumping /\ jumpY = 0 /\ jumpVelocity = 0

\* C9: a jump that has been triggered is followed, whatever keys go down
\* and up during the flight, by a tick that leaves jumpY = 0,
\* jumpVelocity = 0 and isJumping = false.
C9_JumpLands == isJumping ~> grounded

C9_Witness ==
    /\ variant = "App"
    /\ grounded
    /\ flightTicks = (2 * jumpStrength_App) \div gravity + 1
    /\ keys["space"]

\* C10: with jumpStrength 3.5 and gravity 0.1 the height is positive at the
\* end of the triggering tick and of each of the 69 ticks after it, and is
\* 0 again at the end of the 70th tick after the triggering tick, the 71st
\* tick of the flight: 2 * jumpStrength / gravity ticks after the trigger,
\* not 35.
C10_AirTime ==
    variant = "part_000" =>
        /\ isJumping =>
              /\ jumpY > 0
              /\ flightTicks \in 1..((2 * jumpStrength_000) \div gravity)
        /\ (~isJumping /\ flightTicks > 0) =>
              /\ grounded
              /\ flightTicks = (2 * jumpStrength_000) \div gravity + 1

C10_Witness ==
    /\ variant = "part_000"
    /\ grounded
    /\ flightTicks = (2 * jumpStrength_000) \div gravity + 1
    /\ isThirdPerson

\* C10 as stated: the flight is over after 35 ticks, whether or not the
\* triggering tick is counted.
C10_LandsAfter35 ==
    (variant = "part_000" /\ ~isJumping /\ flightTicks > 0) =>
        flightTicks \in {35, 36}

\* Height and velocity after n ticks of a flight that started from the
\* ground with velocity js: the sums of js, js - g, js - 2g, ...
heightAfter(js, n) == n * js - (gravity * n * (n - 1)) \div 2
velocityAfter(js, n) == js - gravity * n

\* C11: while a flight of part_000 or part_001 lasts, height and velocity
\* are the ones fixed by the number of ticks since the trigger alone,
\* whatever keys are down; the held jump key never sets the velocity back
\* to jumpStrength, and the ground is only left by a trigger.
C11_NoReentry ==
    variant \in Gated =>
        /\ isJumping =>
              /\ flightTicks >= 1
              /\ jumpY = heightAfter(jumpStrength(variant), flightTicks)
              /\ jumpVelocity = velocityAfter(jumpStrength(variant), flightTicks)
        /\ ~isJumping => (jumpY = 0 /\ jumpVelocity = 0)

C11_Witness ==
    /\ variant = "part_001"
    /\ isJumping
    /\ keys["space"]
    /\ isSprinting
    /\ flightTicks = jumpStrength_001 \div gravity + 5

\* C12: a tick in which forward and back are both down and left and right
\* are both down or both up, or left and right are both down and forward
\* and back are both down or both up, leaves cameraX and cameraZ as they
\* were, at every yaw, pitch and sprint state.
cancelling ==
    \/ keys["w"] /\ keys["s"] /\ (keys["a"] <=> keys["d"])
    \/ keys["a"] /\ keys["d"] /\ (keys["w"] <=> keys["s"])

C12_Cancellation ==
    [][cancelling => (cameraX' = cameraX /\ cameraZ' = cameraZ)]_vars

C12_Witness ==
    /\ frame.n = 2
    /\ ~frame.moved
    /\ keys["w"] /\ keys["s"] /\ keys["a"] /\ keys["d"]
    /\ isSprinting
    /\ yaw = 1
    /\ pitch = pitchLimit_000

(***************************************************************************)
(* Properties of the look direction.                                       *)
(***************************************************************************)

\* C13: a step taken while the canvas does not hold pointer lock leaves yaw
\* and pitch as they were.  onFPSMouseMove of App.jsx has no pointer-lock
\* test.
C13_LookNeedsLock ==
    [][~pointerLock => (yaw' = yaw /\ pitch' = pitch)]_vars

\* The mouse event e is applied to the look direction in this step.
looks(e) ==
    \/ onFPSMouseMove(e)
    \/ pointerLock /\ onMouseMove(e)

\* C14: pitch stays within -pitchLimit .. pitchLimit, and a mouse event
\* whose travel would carry pitch past a limit leaves it exactly at that
\* limit, on the side it was heading to; any other event moves it by the
\* travel times the sensitivity.
C14_PitchClamp ==
    [][/\ pitch' >= -pitchLimit(variant)
       /\ pitch' <= pitchLimit(variant)
       /\ \A e \in Glances :
             looks(e) =>
                LET target == pitch - e.movementY * sensitivity
                IN  /\ target > pitchLimit(variant) => pitch' = pitchLimit(variant)
                    /\ target < -pitchLimit(variant) => pitch' = -pitchLimit(variant)
                    /\ target \in -pitchLimit(variant)..pitchLimit(variant)
                          => pitch' = target]_vars

C14_Witness ==
    /\ variant = "App"
    /\ pitch = -pitchLimit_App
    /\ yaw = 2
    /\ frame.n = 2

(***************************************************************************)
(* Properties of the character model.                                      *)
(***************************************************************************)

\* The visibility the camera toggle controls: the first-person-only parts
\* in part_000, the whole model in part_001.
toggledVisible == IF variant = "part_000" THEN partsVisible ELSE modelVisible

\* C15: whenever a model is bound (in part_000: one that has the parts),
\* the visibility the camera toggle controls is on exactly when
\* isThirdPerson is true.  The load callbacks hide the parts / the model
\* without looking at isThirdPerson, so a toggle that came before the load
\* completed is lost.
C15_VisibilityFollowsToggle ==
    (variant \in Gated /\ load = "loaded" /\ (variant = "part_000" => hasParts)) =>
        (toggledVisible <=> isThirdPerson)

\* C16: a tick with a mixer and an active clip bound leaves the clip
\* running exactly when the raw displacement vector of the tick was not
\* zero; with only cancelling keys down it leaves it stopped; and it calls
\* play() or stop() exactly when the clip goes from stopped to running or
\* back.
C16_ClipFollowsMovement ==
    [][((render \/ render_001) /\ clipBound) =>
           /\ actionRunning' <=> frame'.moved
           /\ frame'.moved <=> (rawMove(keys, yaw) # <<0, 0>>)
           /\ (keys["w"] <=> keys["s"]) => ~actionRunning'
           /\ frame'.issued = "play" <=> (~actionRunning /\ actionRunning')
           /\ frame'.issued = "stop" <=> (actionRunning /\ ~actionRunning')]_vars

C16_Witness ==
    /\ variant = "part_001"
    /\ clipBound
    /\ frame.n = 2
    /\ frame.issued = "stop"
    /\ keys["w"] /\ keys["s"]
    /\ ~actionRunning

(***************************************************************************)
(* Properties of the resize handler.                                       *)
(***************************************************************************)

\* C17: after any sequence of resize events the drawing buffer has the size
\* the current client size and pixel ratio give, and camera.aspect is the
\* current clientWidth / clientHeight.  handleResize touches the aspect
\* only when the truncated buffer size changes, so the aspect of an earlier
\* layout with the same buffer size stays.
C17_ViewFollowsLayout ==
    variant \in Gated =>
        /\ view.width = bufferSize(view.clientWidth, view.pixelRatio)
        /\ view.height = bufferSize(view.clientHeight, view.pixelRatio)
        /\ view.aspect[1] * view.clientHeight = view.aspect[2] * view.clientWidth

(***************************************************************************)
(* Further properties of the tile streaming.                               *)
(***************************************************************************)

\* C18: in the gated variants the first tick, with the viewpoint still in
\* the tile the startup call streamed, does not call updateTiles again.
\* lastCameraTileX and lastCameraTileZ start as -Infinity and the startup
\* call does not set them, so the test of the first tick always succeeds.
C18_StartupStreamsOnce ==
    (variant \in Gated /\ frame.n = 1 /\ frame.done /\ ~frame.crossed) =>
        (~frame.streamed /\ upd.calls = 1)

\* C19: createTile allocates nothing for the single tile, so no geometry,
\* material or texture that belongs to one tile ever exists, resident or
\* evicted.  createTile of part_000 makes a PlaneGeometry for each tile,
\* createTile of App.jsx a geometry, a texture and a material.
C19_SharedResources ==
    /\ \A k \in DOMAIN tiles :
          resourcesOf(allocatedKinds(variant), {k}) \cap DOMAIN live = {}
    /\ live = EmptyBag
    /\ orphans = EmptyBag

\* C20: the map never holds more tiles than there are integer pairs
\* (i, j) with i*i + j*j <= R*R for the radius R in force.  The disc of
\* App.jsx is centred on the viewpoint, not on a tile, and off the grid it
\* can cover more tile origins than that.
C20_CircularFootprint ==
    Cardinality(DOMAIN tiles) <= Cardinality(Circle(<<0, 0>>, visibleRadius))

(***************************************************************************)
(* Properties of the dynamic radius of App.jsx.                            *)
(***************************************************************************)

\* The radius formula at every camera height from the ground up to
\* MaxHeight, far above the top of a jump.
radiiClamped ==
    \A jy \in 0..MaxHeight : dynamicRadius(jy) \in 0..maxRadius_App

\* C21: in App.jsx every updateTiles call is made with the radius the tick
\* has just computed, a natural number that is at most the clamp at every
\* height of a jump (and at every height up to MaxHeight), and the map never
\* holds more tiles than a circle of the clamp radius has.
C21_RadiusClamped ==
    /\ radiiClamped
    /\ (variant = "App" /\ upd.calls >= 1) =>
          /\ upd.args[3] = visibleRadius
          /\ visibleRadius = dynamicRadius(jumpY)
          /\ visibleRadius \in 0..maxRadius_App
          /\ Cardinality(DOMAIN tiles)
                <= Cardinality(Circle(<<0, 0>>, maxRadius_App))

C21_Witness ==
    /\ variant = "App"
    /\ isJumping
    /\ jumpVelocity = 0
    /\ visibleRadius > dynamicRadius(0)
    /\ upd.args[3] = visibleRadius
    /\ Cardinality(DOMAIN tiles) > Cardinality(Circle(<<0, 0>>, dynamicRadius(0)))

(***************************************************************************)
(* Properties of the ground textures.                                      *)
(***************************************************************************)

\* A texture's image arrives or fails in this step.
resolves == DOMAIN texture' = DOMAIN texture /\ texture' # texture

\* C22: a tick leaves in the map exactly the tiles its position and radius
\* ask for, whatever the states of the textures are, and requests the next
\* tick; a step in which a texture loads or fails changes nothing but that
\* texture's state: not the map, the scene or the resources, not the
\* viewpoint or the jump, and no texture that is loaded or failed goes back
\* to loading.
C22_TexturesDoNotBlock ==
    [][/\ rafPending' /\ thrown' = {}
       /\ renderApp =>
             /\ DOMAIN tiles' = neededTilesApp(cameraX', cameraZ', visibleRadius')
             /\ DOMAIN texture' = DOMAIN tiles'
             /\ frame'.streamed /\ frame'.done
       /\ render =>
             /\ DOMAIN tiles' = neededTiles(cameraX', cameraZ', visibleRadius)
             /\ frame'.done
       /\ resolves =>
             /\ UNCHANGED <<tiles, scene, live, orphans, upd, visibleRadius,
                            lastCameraTileX, lastCameraTileZ, cameraX, cameraZ,
                            keys, jumpY, jumpVelocity, isJumping, frame>>
             /\ \A k \in DOMAIN texture :
                   texture[k] # "pending" => texture'[k] = texture[k]]_vars

C22_Witness ==
    /\ variant = "App"
    /\ frame.n = 2
    /\ "failed" \in upd.seen
    /\ "loaded" \in upd.seen
    /\ upd.created # {}
    /\ \E k \in DOMAIN texture : texture[k] = "failed"

(***************************************************************************)
(* Further properties of the jump.                                         *)
(***************************************************************************)

\* C23: after every tick jumpY is not negative, isJumping is false exactly
\* when jumpY is 0, and jumpVelocity is 0 then; and a step that begins on
\* the ground with the jump key up leaves jumpY, jumpVelocity and isJumping
\* as they were.
C23_GroundState ==
    [][/\ jumpY' >= 0
       /\ ~isJumping' <=> jumpY' = 0
       /\ ~isJumping' => jumpVelocity' = 0
       /\ (grounded /\ ~keys["space"]) =>
             UNCHANGED <<jumpY, jumpVelocity, isJumping>>]_vars

C23_Witness ==
    /\ variant = "part_000"
    /\ frame.n = 2
    /\ frame.rested
    /\ grounded
    /\ flightTicks = (2 * jumpStrength_000) \div gravity + 1
    /\ isSprinting

(***************************************************************************)
(* Properties of the animation.                                            *)
(***************************************************************************)

\* C24: a tick that leaves the active clip running leaves its timeScale at
\* the variant's sprint multiplier when isSprinting is true, and at 1 when
\* it is false.  part_001 multiplies the speed by 3.5 and never assigns
\* timeScale.
C24_RateFollowsSprint ==
    [][((render \/ render_001) /\ clipBound /\ actionRunning') =>
           IF isSprinting
           THEN (IF variant = "part_000"
                 THEN timeScale' = sprintNum_000
                 ELSE sprintDen_001 * timeScale' = sprintNum_001)
           ELSE timeScale' = 1]_vars

\* C25: a tick that moves the viewpoint while the clip runs advances both
\* by a fixed amount, whatever time has passed since the tick before, or
\* advances both in proportion to that time.  The viewpoint moves by
\* currentSpeed in every tick; mixer.update advances the clip by delta.
C25_OneTimePolicy ==
    [][((render \/ render_001) /\ rawMove(keys, yaw) # <<0, 0>>
            /\ clipBound /\ actionRunning) =>
           LET step == <<cameraX' - cameraX, cameraZ' - cameraZ>>
               speed == currentSpeed(variant, isSprinting)
           IN  \/ /\ step = displacement(rawMove(keys, yaw), speed)
                  /\ frame'.advance = timeScale
               \/ /\ step = displacement(rawMove(keys, yaw), speed * delta)
                  /\ frame'.advance = timeScale * delta]_vars

(***************************************************************************)
(* Properties of the camera rig.                                           *)
(***************************************************************************)
minus(a, b) == <<a[1] - b[1], a[2] - b[2], a[3] - b[3]>>

\* The camera's offset from the character model in third-person mode when
\* yaw is 0.
thirdPersonOffset(v) ==
    minus(cameraPose(v, TRUE, TRUE, <<0, 0>>, 0, 0, 0).position,
          cameraPose(v, TRUE, TRUE, <<0, 0>>, 0, 0, 0).character)

\* The pose the tick taken in this step sets.
tickPose ==
    cameraPose(variant, isThirdPerson, load = "loaded",
               <<cameraX', cameraZ'>>, jumpY', yaw, pitch)

\* C26: a third-person tick with a character model bound gives
\* camera.lookAt a point straight above the character, with no term that
\* depends on yaw or pitch, and puts the camera at the character position
\* plus the yaw-0 offset rotated by yaw.  part_000 puts the camera at a
\* fixed world-axis offset and looks along yaw and pitch.
C26_ThirdPersonRig ==
    [][((render \/ render_001) /\ isThirdPerson /\ load = "loaded") =>
           /\ tickPose.dir = <<>>
           /\ minus(tickPose.target, tickPose.character)[1] = 0
           /\ minus(tickPose.target, tickPose.character)[3] = 0
           /\ minus(tickPose.target, tickPose.character)[2]
                 = minus(cameraPose(variant, TRUE, TRUE, <<0, 0>>, 0, 0, 0).target,
                         cameraPose(variant, TRUE, TRUE, <<0, 0>>, 0, 0, 0).character)[2]
           /\ minus(tickPose.position, tickPose.character)
                 = rotateY(thirdPersonOffset(variant), yaw)]_vars

(***************************************************************************)
(* Properties of the cleanup.                                              *)
(***************************************************************************)

\* C27: once the cleanup function has run no frame callback is pending, no
\* tick runs, updateTiles is not called, and the map and the scene hold no
\* tile.  cleanup only removes listeners and disposes of the shared
\* material and texture: the frame request stays, the ticks go on, and the
\* tiles stay and are created as before.
C27_CleanupStops ==
    [][cleaned' =>
          /\ ~rafPending'
          /\ frame' = frame
          /\ upd' = upd
          /\ DOMAIN tiles' = {}
          /\ scene' = EmptyBag]_vars

(***************************************************************************)
(* Further properties of the character model.                              *)
(***************************************************************************)

\* C28: with a model bound, pressing the camera toggle twice leaves
\* isThirdPerson, the visibility of the first-person-only parts and the
\* visibility of the whole model as they were.  part_000 never sets
\* characterModel.visible when the model loads, so the model starts visible
\* and after the two presses is hidden.
C28_ToggleRoundTrip ==
    (variant \in Gated /\ load = "loaded") =>
        LET t == <<isThirdPerson, partsVisible, modelVisible>>
        IN  tabPress(variant, TRUE, hasParts,
                     tabPress(variant, TRUE, hasParts, t)) = t

(***************************************************************************)
(* Properties of the keyboard handling.                                    *)
(***************************************************************************)

\* C29: the held flag of a movement key whose key is up is false, in
\* whatever order the key and Shift went down and up.  App.jsx compares
\* e.key with the lower-case letter, so the keyup of a letter whose key
\* went down without Shift and comes up with Shift down ('W') leaves the
\* flag set.
C29_ReleasedKeysAreUp ==
    \A k \in {"w", "a", "s", "d"} : codeOf(k) \notin held => ~keys[k]

====
